---- MODULE Spec2Model ----
(***************************************************************************)
(* Model of the %%bq pipeline cell magic of                                *)
(* google/datalab/contrib/bigquery/commands/_bigquery.py:                  *)
(* _pipeline_cell and the three stage builders _add_load_parameters,       *)
(* _add_execute_parameters and _add_extract_parameters.                    *)
(*                                                                         *)
(* A Python dict is a TLA+ function whose DOMAIN is the set of keys that   *)
(* are present.  A value that may be None is a set with at most one        *)
(* element ({} is None).  Scalars are strings: True is "True", 0 is "0",   *)
(* a None stored as a dict value is "None".                                *)
(***************************************************************************)
EXTENDS Naturals, Sequences, FiniteSets, TLC

VARIABLES args, cell, outcome, registry, built, ncalls

vars == <<args, cell, outcome, registry, built, ncalls>>

----------------------------------------------------------------------------
(* Bounds of the model *)

\* how many non-decisive (option) keys one pipeline document may carry
MaxOptionKeys == 2
\* how many pipeline cells are run one after the other in one notebook session
MaxCalls == 2

----------------------------------------------------------------------------
(* Python values *)

PyNone == "None"
PyTrue == "True"
PyFalse == "False"

None == {}
Some(x) == {x}
TheOne(opt) == CHOOSE x \in opt : TRUE

EmptyDict == [k \in {} |-> PyNone]
Has(d, k) == k \in DOMAIN d
Put(d, k, v) == [x \in (DOMAIN d) \cup {k} |-> IF x = k THEN v ELSE d[x]]
Get(d, k, default) == IF k \in DOMAIN d THEN d[k] ELSE default
\* any(key in d for key in keys)
AnyKeyIn(d, keys) == \E key \in keys : key \in DOMAIN d
\* truth value of a dict: an empty dict is false, any other dict is true
Truthy(d) == DOMAIN d # {}

NoError == "ok"
ErrNoName == "Pipeline name was not specified."
ErrSchemaNoPath == "Schema is specified, but path is absent."
ErrFileOptionNoPath == "Path is not specified, but at least one file option is."
ErrQueryOption == "Query is not specified, but at least one query option is."
ErrPathNoTable == "Path is specified but table is not."
ErrNoTasks == "Pipeline has no tasks to execute."
ErrTypeError == "TypeError: argument of type 'NoneType' is not iterable"
ErrKeyError == "KeyError"

load_task_config_name == "bq_pipeline_load_task"
execute_task_config_name == "bq_pipeline_execute_task"
extract_task_config_name == "bq_pipeline_extract_task"

LoadFileOptions == {"format", "delimiter", "quote", "skip", "strict"}
ExecuteQueryOptions == {"large", "mode"}
ExtractFileOptions == {"compress", "delimiter", "format", "header"}

----------------------------------------------------------------------------
(* _add_load_parameters: result is the dict as mutated in place (cfg), the *)
(* returned value (ret, None when nothing is returned) and the exception   *)
(* raised (err).                                                           *)

add_load_parameters(load_task_config, bq_pipeline_input_config) ==
  IF bq_pipeline_input_config = None
  THEN \* 'path' in None
       [cfg |-> load_task_config, ret |-> None, err |-> ErrTypeError]
  ELSE
  LET input == TheOne(bq_pipeline_input_config)
      path_exists == Has(input, "path")
      c1 == IF path_exists THEN Put(load_task_config, "path", input["path"])
            ELSE load_task_config
      table_exists == Has(input, "table")
      c2 == IF table_exists THEN Put(c1, "table", input["table"]) ELSE c1
      c3 == IF Has(input, "schema") THEN Put(c2, "schema", input["schema"]) ELSE c2
      \* line 192 is not indented under the if of line 189: it always runs
      schema_exists == TRUE
      c4 == IF table_exists /\ path_exists
            THEN Put(c3, "mode", IF schema_exists THEN "create" ELSE "append")
            ELSE c3
      c5 == Put(Put(Put(Put(Put(c4,
              "format", Get(input, "format", "csv")),
              "delimiter", Get(input, "delimiter", ",")),
              "quote", Get(input, "quote", "\"")),
              "skip", Get(input, "skip", "0")),
              "strict", Get(input, "strict", PyTrue))
  IN  IF table_exists /\ ~path_exists
      THEN IF schema_exists
           THEN [cfg |-> c3, ret |-> None, err |-> ErrSchemaNoPath]
           ELSE [cfg |-> c3, ret |-> None, err |-> NoError]
      ELSE IF ~table_exists /\ ~path_exists
      THEN [cfg |-> c3, ret |-> None, err |-> NoError]
      ELSE IF path_exists
      THEN [cfg |-> c5, ret |-> Some(c5), err |-> NoError]
      ELSE IF AnyKeyIn(input, LoadFileOptions)
      THEN [cfg |-> c4, ret |-> None, err |-> ErrFileOptionNoPath]
      ELSE [cfg |-> c4, ret |-> Some(c4), err |-> NoError]

----------------------------------------------------------------------------
(* _add_execute_parameters *)

add_execute_parameters_default_append(execute_task_config, bq_pipeline_transformation_config) ==
  LET t == bq_pipeline_transformation_config
      c1 == Put(execute_task_config, "query", Get(t, "query", PyNone))
      c3 == Put(Put(c1, "large", Get(t, "large", PyTrue)),
                    "mode", Get(t, "mode", "append"))
  IN  IF ~Has(t, "query")
      THEN IF AnyKeyIn(t, ExecuteQueryOptions)
           THEN [cfg |-> execute_task_config, ret |-> None, err |-> ErrQueryOption]
           ELSE [cfg |-> execute_task_config, ret |-> None, err |-> NoError]
      ELSE [cfg |-> c3, ret |-> Some(c3), err |-> NoError]

add_execute_parameters(execute_task_config, bq_pipeline_transformation_config) ==
  LET t == bq_pipeline_transformation_config
      c1 == Put(execute_task_config, "query", Get(t, "query", PyNone))
      c2 == Put(c1, "large", Get(t, "large", PyTrue))
      c3 == Put(c2, "mode", Get(t, "mode", "create"))
  IN  IF ~Has(t, "query")
      THEN IF AnyKeyIn(t, ExecuteQueryOptions)
           THEN [cfg |-> execute_task_config, ret |-> None, err |-> ErrQueryOption]
           ELSE [cfg |-> execute_task_config, ret |-> None, err |-> NoError]
      ELSE [cfg |-> c3, ret |-> Some(c3), err |-> NoError]

----------------------------------------------------------------------------
(* _add_extract_parameters: cfg is extract_task_config and exec is         *)
(* execute_task_config, both as mutated in place.  The function has no     *)
(* return statement on its last path, so it returns None there too.        *)

add_extract_parameters_path_first(extract_task_config, execute_task_config, bq_pipeline_output_config) ==
  LET o == bq_pipeline_output_config
      x1 == Put(extract_task_config, "path", Get(o, "path", PyNone))
      e1 == Put(execute_task_config, "table", Get(o, "table", PyNone))
      x2 == Put(Put(Put(Put(Put(x1,
              "billing", Get(o, "billing", PyNone)),
              "compress", Get(o, "compress", PyTrue)),
              "delimiter", Get(o, "delimiter", ",")),
              "header", Get(o, "header", PyTrue)),
              "format", Get(o, "format", "csv"))
  IN  IF Has(o, "path")
      THEN IF ~Has(o, "table")
           THEN [cfg |-> x1, exec |-> execute_task_config, ret |-> None,
                 err |-> ErrPathNoTable]
           ELSE [cfg |-> x2, exec |-> e1, ret |-> None, err |-> NoError]
      ELSE IF ~Has(o, "table")
      THEN [cfg |-> extract_task_config, exec |-> execute_task_config, ret |-> None,
            err |-> NoError]
      ELSE IF AnyKeyIn(o, ExtractFileOptions)
      THEN [cfg |-> extract_task_config, exec |-> e1, ret |-> None,
            err |-> ErrFileOptionNoPath]
      ELSE [cfg |-> extract_task_config, exec |-> e1, ret |-> None, err |-> NoError]

add_extract_parameters_no_compress(extract_task_config, execute_task_config, bq_pipeline_output_config) ==
  LET o == bq_pipeline_output_config
      e1 == Put(execute_task_config, "table", Get(o, "table", PyNone))
      x1 == Put(extract_task_config, "path", Get(o, "path", PyNone))
      x2 == Put(Put(Put(Put(Put(x1,
              "billing", Get(o, "billing", PyNone)),
              "compress", Get(o, "compress", PyFalse)),
              "delimiter", Get(o, "delimiter", ",")),
              "header", Get(o, "header", PyTrue)),
              "format", Get(o, "format", "csv"))
  IN  IF ~Has(o, "table")
      THEN [cfg |-> extract_task_config, exec |-> execute_task_config, ret |-> None,
            err |-> NoError]
      ELSE IF Has(o, "path")
      THEN IF ~Has(e1, "table")
           THEN [cfg |-> x1, exec |-> e1, ret |-> None, err |-> ErrPathNoTable]
           ELSE [cfg |-> x2, exec |-> e1, ret |-> None, err |-> NoError]
      ELSE IF AnyKeyIn(o, ExtractFileOptions)
      THEN [cfg |-> extract_task_config, exec |-> e1, ret |-> None,
            err |-> ErrFileOptionNoPath]
      ELSE [cfg |-> extract_task_config, exec |-> e1, ret |-> None, err |-> NoError]

add_extract_parameters(extract_task_config, execute_task_config, bq_pipeline_output_config) ==
  LET o == bq_pipeline_output_config
      e1 == Put(execute_task_config, "table", Get(o, "table", PyNone))
      x1 == Put(extract_task_config, "path", Get(o, "path", PyNone))
      x2 == Put(Put(Put(Put(Put(x1,
              "billing", Get(o, "billing", PyNone)),
              "compress", Get(o, "compress", PyTrue)),
              "delimiter", Get(o, "delimiter", ",")),
              "header", Get(o, "header", PyTrue)),
              "format", Get(o, "format", "csv"))
  IN  IF ~Has(o, "table")
      THEN [cfg |-> extract_task_config, exec |-> execute_task_config, ret |-> None,
            err |-> NoError]
      ELSE IF Has(o, "path")
      THEN IF ~Has(e1, "table")
           THEN [cfg |-> x1, exec |-> e1, ret |-> None, err |-> ErrPathNoTable]
           ELSE [cfg |-> x2, exec |-> e1, ret |-> None, err |-> NoError]
      ELSE IF AnyKeyIn(o, ExtractFileOptions)
      THEN [cfg |-> extract_task_config, exec |-> e1, ret |-> None,
            err |-> ErrFileOptionNoPath]
      ELSE [cfg |-> extract_task_config, exec |-> e1, ret |-> None, err |-> NoError]

----------------------------------------------------------------------------
(* _pipeline_cell *)

\* the task configs as created before the builders fill them (lines 139, 143, 147)
load_task_config_0 == [k \in {"type"} |-> "pydatalab.bq.load"]
execute_task_config_0 ==
  [k \in {"type", "up_stream"} |->
     IF k = "type" THEN "pydatalab.bq.execute" ELSE <<load_task_config_name>>]
extract_task_config_0 ==
  [k \in {"type", "up_stream"} |->
     IF k = "type" THEN "pydatalab.bq.extract" ELSE <<execute_task_config_name>>]

\* lines 156-162: a section is set when its task config is true as a dict
assemble_tasks_by_return(load, execute, extract) ==
  LET t0 == EmptyDict
      t1 == IF load.ret # None THEN Put(t0, load_task_config_name, load.cfg) ELSE t0
      t2 == IF execute.ret # None THEN Put(t1, execute_task_config_name, extract.exec)
            ELSE t1
      t3 == IF Truthy(extract.cfg) THEN Put(t2, extract_task_config_name, extract.cfg)
            ELSE t2
  IN  t3

assemble_tasks(load, execute, extract) ==
  LET t0 == EmptyDict
      t1 == IF Truthy(load.cfg) THEN Put(t0, load_task_config_name, load.cfg) ELSE t0
      t2 == IF Truthy(extract.exec) THEN Put(t1, execute_task_config_name, extract.exec)
            ELSE t1
      t3 == IF Truthy(extract.cfg) THEN Put(t2, extract_task_config_name, extract.cfg)
            ELSE t2
  IN  t3

\* lines 135-165: the pipeline spec built from the parsed cell body, or the
\* exception that stops the build
pipeline_spec_of(bq_pipeline_config) ==
  LET load == add_load_parameters(load_task_config_0, bq_pipeline_config.input)
      execute == add_execute_parameters(execute_task_config_0,
                                        TheOne(bq_pipeline_config.transformation))
      extract == add_extract_parameters(extract_task_config_0, execute.cfg,
                                        TheOne(bq_pipeline_config.output))
      tasks == assemble_tasks(load, execute, extract)
      spec == [email |-> bq_pipeline_config.email,
               schedule |-> bq_pipeline_config.schedule,
               tasks |-> tasks]
      fail(e) == [err |-> e, spec |-> None]
  IN  IF load.err # NoError THEN fail(load.err)
      ELSE IF bq_pipeline_config.transformation = None THEN fail(ErrKeyError)
      ELSE IF execute.err # NoError THEN fail(execute.err)
      ELSE IF bq_pipeline_config.output = None THEN fail(ErrKeyError)
      ELSE IF extract.err # NoError THEN fail(extract.err)
      ELSE IF ~Truthy(load.cfg) /\ ~Truthy(extract.exec) /\ ~Truthy(extract.cfg)
      THEN fail(ErrNoTasks)
      ELSE [err |-> NoError, spec |-> Some(spec)]

\* google.datalab.contrib.pipeline._pipeline.Pipeline(name, pipeline_spec)
Pipeline(name, pipeline_spec) == [name |-> name, spec |-> pipeline_spec]

\* lines 131-172; env is notebook_environment() before the call.  The result is
\* the exception raised (err), the environment after the call (env), the
\* pipeline built (pipeline) and the value returned (returned).
pipeline_cell_register_first(a, cell_body, env) ==
  LET name == a.name
      built_spec == pipeline_spec_of(cell_body)
      pipeline == Pipeline(name, TheOne(built_spec.spec))
      partial == Pipeline(name, [email |-> cell_body.email,
                                 schedule |-> cell_body.schedule,
                                 tasks |-> EmptyDict])
  IN  IF name = PyNone
      THEN [err |-> ErrNoName, env |-> env, pipeline |-> None, returned |-> PyNone]
      ELSE IF built_spec.err # NoError
      THEN [err |-> built_spec.err, env |-> Put(env, name, partial),
            pipeline |-> None, returned |-> PyNone]
      ELSE [err |-> NoError, env |-> Put(env, name, pipeline),
            pipeline |-> Some(pipeline),
            returned |-> IF a.debug = PyTrue THEN "pipeline.py" ELSE PyNone]

pipeline_cell(a, cell_body, env) ==
  LET name == a.name
      built_spec == pipeline_spec_of(cell_body)
      pipeline == Pipeline(name, TheOne(built_spec.spec))
  IN  IF name = PyNone
      THEN [err |-> ErrNoName, env |-> env, pipeline |-> None, returned |-> PyNone]
      ELSE IF built_spec.err # NoError
      THEN [err |-> built_spec.err, env |-> env, pipeline |-> None,
            returned |-> PyNone]
      ELSE [err |-> NoError, env |-> Put(env, name, pipeline),
            pipeline |-> Some(pipeline),
            returned |-> IF a.debug = PyTrue THEN "pipeline.py" ELSE PyNone]

----------------------------------------------------------------------------
(* The inputs: magic arguments and parsed cell bodies *)

InputKeys == {"path", "table", "schema"} \cup LoadFileOptions
TransformationKeys == {"query"} \cup ExecuteQueryOptions
OutputOptions == ExtractFileOptions \cup {"billing"}
OutputKeys == {"table", "path"} \cup OutputOptions

\* the values a key may take in a cell body; every option value differs from
\* the default the builders fill in
InputValues ==
  [k \in InputKeys |->
     CASE k = "path" -> {"gs://x"}
       [] k = "table" -> {"t"}
       [] k = "schema" -> {"name:STRING"}
       [] k = "format" -> {"json"}
       [] k = "delimiter" -> {";"}
       [] k = "quote" -> {"'"}
       [] k = "skip" -> {"1"}
       [] k = "strict" -> {PyFalse}]
TransformationValues ==
  [k \in TransformationKeys |->
     CASE k = "query" -> {"SELECT 1", "SELECT 2"}
       [] k = "large" -> {PyFalse}
       [] k = "mode" -> {"append"}]
OutputValues ==
  [k \in OutputKeys |->
     CASE k = "table" -> {"t2"}
       [] k = "path" -> {"gs://y"}
       [] k = "billing" -> {"2"}
       [] k = "compress" -> {PyFalse}
       [] k = "delimiter" -> {"|"}
       [] k = "format" -> {"avro"}
       [] k = "header" -> {PyFalse}]

\* every dict whose keys are among keys, each key with one of its values
RECURSIVE Configs(_, _)
Configs(keys, values) ==
  IF keys = {} THEN {EmptyDict}
  ELSE LET k == CHOOSE x \in keys : TRUE
           rest == Configs(keys \ {k}, values)
       IN  rest \cup {Put(d, k, v) : d \in rest, v \in values[k]}

\* a section of the cell body: missing, or one of the dicts
Section(configs) == {None} \cup {Some(c) : c \in configs}

OptionCount(section, options) ==
  IF section = None THEN 0 ELSE Cardinality(DOMAIN TheOne(section) \cap options)

OptionLimited(configs, options) ==
  {c \in configs : Cardinality(DOMAIN c \cap options) <= MaxOptionKeys}

\* the cell bodies of the one-cell specifications
Docs ==
  { d \in [email : {"a@example.com"},
           schedule : {"@daily"},
           input : Section(OptionLimited(Configs(InputKeys, InputValues),
                                         LoadFileOptions)),
           transformation : Section(OptionLimited(
                                Configs(TransformationKeys, TransformationValues),
                                ExecuteQueryOptions)),
           output : Section(OptionLimited(Configs(OutputKeys, OutputValues),
                                          OutputOptions))] :
      OptionCount(d.input, LoadFileOptions)
        + OptionCount(d.transformation, ExecuteQueryOptions)
        + OptionCount(d.output, OutputOptions) <= MaxOptionKeys }

\* the cell bodies of the notebook session: few keys, so that sessions of
\* several cells stay small; a missing section, a load builder error, an
\* execute builder error and several distinct pipelines are among them
SessionDocs ==
  [email : {"a@example.com"},
   schedule : {"@daily"},
   input : Section(Configs({"table"}, InputValues)),
   transformation : Section({c \in Configs({"query", "mode"}, TransformationValues) :
                               c = EmptyDict \/ DOMAIN c = {"mode"}
                                 \/ (DOMAIN c = {"query"} /\ c["query"] = "SELECT 1")}),
   output : {Some(c) : c \in Configs({"table"}, OutputValues)}]

PipelineNames == {"pipeline_a", "pipeline_b"}
ArgsSet == [name : PipelineNames \cup {PyNone}, debug : {PyTrue, PyFalse}]
\* the session runs its cells without --debug
SessionArgs == {a \in ArgsSet : a.debug = PyFalse}

----------------------------------------------------------------------------
(* Actions *)

\* one run of the cell magic: %%bq pipeline <a> over the parsed body d
PipelineCell(a, d) ==
  /\ ncalls < MaxCalls
  /\ LET r == pipeline_cell(a, d, registry)
     IN  /\ outcome' = Some([err |-> r.err, pipeline |-> r.pipeline,
                             returned |-> r.returned])
         /\ registry' = r.env
  /\ args' = Some(a)
  /\ cell' = Some(d)
  /\ ncalls' = ncalls + 1
  /\ UNCHANGED built

\* the cell drawn in the initial state is run once
RunCell ==
  /\ args # None
  /\ outcome = None
  /\ PipelineCell(TheOne(args), TheOne(cell))

\* the builders applied, as functions, to the sections of the drawn cell body
AddLoadParameters ==
  /\ args = None /\ cell # None
  /\ ~Has(built, "load")
  /\ built' = Put(built, "load",
                  add_load_parameters(load_task_config_0, TheOne(cell).input))
  /\ UNCHANGED <<args, cell, outcome, registry, ncalls>>

AddExecuteParameters ==
  /\ args = None /\ cell # None
  /\ ~Has(built, "execute")
  /\ TheOne(cell).transformation # None
  /\ built' = Put(built, "execute",
                  add_execute_parameters(execute_task_config_0,
                                         TheOne(TheOne(cell).transformation)))
  /\ UNCHANGED <<args, cell, outcome, registry, ncalls>>

\* the extract builder is given the execute config the execute builder left
AddExtractParameters ==
  /\ args = None /\ cell # None
  /\ Has(built, "execute") /\ built["execute"].err = NoError
  /\ ~Has(built, "extract")
  /\ TheOne(cell).output # None
  /\ built' = Put(built, "extract",
                  add_extract_parameters(extract_task_config_0, built["execute"].cfg,
                                         TheOne(TheOne(cell).output)))
  /\ UNCHANGED <<args, cell, outcome, registry, ncalls>>

----------------------------------------------------------------------------
(* Specifications *)

\* a notebook session: cells are run one after the other over one environment
Init ==
  /\ args = None /\ cell = None /\ outcome = None
  /\ registry = EmptyDict /\ built = EmptyDict /\ ncalls = 0

Next == \E a \in SessionArgs, d \in SessionDocs : PipelineCell(a, d)

Spec == Init /\ [][Next]_vars

\* one cell, drawn from the wide family of cell bodies, run in a fresh session
InitCompile ==
  /\ args \in {Some(a) : a \in ArgsSet}
  /\ cell \in {Some(d) : d \in Docs}
  /\ outcome = None
  /\ registry = EmptyDict /\ built = EmptyDict /\ ncalls = 0

NextCompile == RunCell

SpecCompile == InitCompile /\ [][NextCompile]_vars

\* the three builders as functions of the sections of a drawn cell body
InitBuilders ==
  /\ args = None
  /\ cell \in {Some(d) : d \in Docs}
  /\ outcome = None
  /\ registry = EmptyDict /\ built = EmptyDict /\ ncalls = 0

NextBuilders == AddLoadParameters \/ AddExecuteParameters \/ AddExtractParameters

SpecBuilders == InitBuilders /\ [][NextBuilders]_vars

----------------------------------------------------------------------------
(* Properties *)

\* the sections of the drawn cell body, and what the builders made of them
TheCell == TheOne(cell)
TheInput == TheOne(TheCell.input)
TheTransformation == TheOne(TheCell.transformation)
TheOutput == TheOne(TheCell.output)
TheOutcome == TheOne(outcome)
Tasks == TheOne(TheOutcome.pipeline).spec.tasks
LoadBuilt == Has(built, "load") /\ TheCell.input # None
Succeeded == outcome # None /\ TheOutcome.err = NoError

\* C3: for an input with table and path, the load task has mode "create" when
\* schema is present and mode "append" when schema is absent.
C3_LoadModeFollowsSchema ==
  (LoadBuilt /\ Has(TheInput, "table") /\ Has(TheInput, "path")) =>
    /\ built["load"].err = NoError
    /\ built["load"].ret # None
    /\ TheOne(built["load"].ret)["mode"] =
         IF Has(TheInput, "schema") THEN "create" ELSE "append"

\* C4: for an input with table, without path and without file options, the load
\* builder raises when schema is present, and returns None without raising when
\* schema is absent.
C4_TableWithoutPath ==
  (LoadBuilt /\ Has(TheInput, "table") /\ ~Has(TheInput, "path")
     /\ ~AnyKeyIn(TheInput, LoadFileOptions)) =>
    IF Has(TheInput, "schema")
    THEN built["load"].err # NoError
    ELSE built["load"].err = NoError /\ built["load"].ret = None

\* C7: for an input without path, a file option (format, delimiter, quote,
\* skip, strict) makes the load builder raise "file option given without path"
\* instead of returning None.
C7_FileOptionWithoutPath ==
  (LoadBuilt /\ ~Has(TheInput, "path") /\ AnyKeyIn(TheInput, LoadFileOptions)) =>
    built["load"].err = ErrFileOptionNoPath

\* C8: for an output without table, whatever its other keys, the extract
\* builder returns None, raises nothing and leaves the execute task config as
\* it was before the call.
C8_NoTableNoExtract ==
  (Has(built, "extract") /\ ~Has(TheOutput, "table")) =>
    /\ built["extract"].err = NoError
    /\ built["extract"].ret = None
    /\ built["extract"].exec = built["execute"].cfg

\* C8 witness: the extract builder has run on an output that has a path and
\* no table, after an execute builder that built a task.
C8_Witness ==
  /\ Has(built, "extract")
  /\ ~Has(TheOutput, "table") /\ Has(TheOutput, "path")
  /\ built["execute"].ret # None
  /\ built["extract"].exec = built["execute"].cfg

\* C9: without query the execute builder raises if large or mode is present and
\* otherwise returns None; with query it never raises and returns a task that
\* carries the query verbatim, large (default True) and mode (default "create").
C9_ExecuteBuilder ==
  Has(built, "execute") =>
    IF ~Has(TheTransformation, "query")
    THEN IF AnyKeyIn(TheTransformation, ExecuteQueryOptions)
         THEN built["execute"].err # NoError
         ELSE built["execute"].err = NoError /\ built["execute"].ret = None
    ELSE /\ built["execute"].err = NoError
         /\ built["execute"].ret # None
         /\ LET task == TheOne(built["execute"].ret)
            IN  /\ task["query"] = TheTransformation["query"]
                /\ task["large"] = Get(TheTransformation, "large", PyTrue)
                /\ task["mode"] = Get(TheTransformation, "mode", "create")

\* C9 witness: the execute builder has built a task from a query given without
\* mode, so that the default mode was filled in.
C9_Witness ==
  /\ Has(built, "execute")
  /\ Has(TheTransformation, "query") /\ ~Has(TheTransformation, "mode")
  /\ built["execute"].ret # None
  /\ TheOne(built["execute"].ret)["query"] = "SELECT 2"

\* whether each builder decides that its stage is needed, for the drawn cell
LoadNeeded == add_load_parameters(load_task_config_0, TheCell.input).ret # None
ExecuteNeeded ==
  add_execute_parameters(execute_task_config_0, TheTransformation).ret # None
ExtractNeeded == Has(TheOutput, "table") /\ Has(TheOutput, "path")

\* C1: after a compile that succeeds, tasks has an entry for a stage exactly
\* when the builder of that stage decided that the stage is needed.
C1_TasksAreTheNeededStages ==
  Succeeded =>
    /\ Has(Tasks, load_task_config_name) <=> LoadNeeded
    /\ Has(Tasks, execute_task_config_name) <=> ExecuteNeeded
    /\ Has(Tasks, extract_task_config_name) <=> ExtractNeeded

\* C2: after a compile that succeeds, every name in a task's up_stream is a key
\* of tasks: execute's up_stream holds the load task name only if there is a
\* load task and is empty otherwise, extract's up_stream holds the execute task
\* name only if there is an execute task.
C2_UpstreamNamesAreTasks ==
  Succeeded =>
    /\ \A t \in DOMAIN Tasks :
         Has(Tasks[t], "up_stream") =>
           \A i \in 1..Len(Tasks[t]["up_stream"]) :
             Has(Tasks, Tasks[t]["up_stream"][i])
    /\ Has(Tasks, execute_task_config_name) =>
         Tasks[execute_task_config_name]["up_stream"] =
           IF Has(Tasks, load_task_config_name) THEN <<load_task_config_name>>
           ELSE <<>>
    /\ Has(Tasks, extract_task_config_name) =>
         \A i \in 1..Len(Tasks[extract_task_config_name]["up_stream"]) :
           Tasks[extract_task_config_name]["up_stream"][i] = execute_task_config_name
             /\ Has(Tasks, execute_task_config_name)

\* C2 witness: a compile has succeeded on a cell whose input has neither path
\* nor table, and the execute task names the load task as its upstream.
C2_Witness ==
  /\ Succeeded
  /\ ~Has(TheInput, "path") /\ ~Has(TheInput, "table")
  /\ Has(Tasks, execute_task_config_name)
  /\ Tasks[execute_task_config_name]["up_stream"] = <<load_task_config_name>>

\* C5: compiling a cell whose input, transformation and output all lack their
\* decisive keys (path and table, query, table and path) fails and produces no
\* pipeline; the error is "pipeline has no tasks to execute" when no builder
\* has an option key to reject.
C5_NoTasksIsAnError ==
  (/\ outcome # None
   /\ TheOne(args).name # PyNone
   /\ TheCell.input # None /\ TheCell.transformation # None /\ TheCell.output # None
   /\ ~AnyKeyIn(TheInput, {"path", "table"})
   /\ ~Has(TheTransformation, "query")
   /\ ~AnyKeyIn(TheOutput, {"table", "path"})) =>
    /\ TheOutcome.err # NoError
    /\ TheOutcome.pipeline = None
    /\ registry = EmptyDict
    /\ (/\ ~AnyKeyIn(TheInput, LoadFileOptions)
        /\ ~AnyKeyIn(TheTransformation, ExecuteQueryOptions)
        /\ ~AnyKeyIn(TheOutput, OutputOptions)) => TheOutcome.err = ErrNoTasks

\* the document of the end-to-end case: all three stages are asked for
FullDocument ==
  /\ TheCell.input # None /\ TheCell.transformation # None /\ TheCell.output # None
  /\ Has(TheInput, "path") /\ Has(TheInput, "table") /\ Has(TheInput, "schema")
  /\ Has(TheTransformation, "query")
  /\ Has(TheOutput, "table") /\ Has(TheOutput, "path")

\* C10: with a name, a cell whose input has path, table and schema, whose
\* transformation has query and whose output has table and path compiles to
\* exactly three tasks: load (mode create), execute (up_stream [load], table
\* of the output), extract (up_stream [execute], path of the output); every
\* option field has the value of the cell when given and its default otherwise.
C10_EndToEnd ==
  (outcome # None /\ TheOne(args).name # PyNone /\ FullDocument) =>
    /\ TheOutcome.err = NoError
    /\ TheOutcome.pipeline # None
    /\ DOMAIN Tasks = {load_task_config_name, execute_task_config_name,
                       extract_task_config_name}
    /\ LET load == Tasks[load_task_config_name]
           execute == Tasks[execute_task_config_name]
           extract == Tasks[extract_task_config_name]
       IN  /\ load["mode"] = "create"
           /\ load["path"] = TheInput["path"]
           /\ load["table"] = TheInput["table"]
           /\ load["schema"] = TheInput["schema"]
           /\ load["format"] = Get(TheInput, "format", "csv")
           /\ load["delimiter"] = Get(TheInput, "delimiter", ",")
           /\ load["quote"] = Get(TheInput, "quote", "\"")
           /\ load["skip"] = Get(TheInput, "skip", "0")
           /\ load["strict"] = Get(TheInput, "strict", PyTrue)
           /\ execute["up_stream"] = <<load_task_config_name>>
           /\ execute["table"] = TheOutput["table"]
           /\ execute["query"] = TheTransformation["query"]
           /\ execute["large"] = Get(TheTransformation, "large", PyTrue)
           /\ execute["mode"] = Get(TheTransformation, "mode", "create")
           /\ extract["up_stream"] = <<execute_task_config_name>>
           /\ extract["path"] = TheOutput["path"]
           /\ extract["billing"] = Get(TheOutput, "billing", PyNone)
           /\ extract["compress"] = Get(TheOutput, "compress", PyTrue)
           /\ extract["delimiter"] = Get(TheOutput, "delimiter", ",")
           /\ extract["header"] = Get(TheOutput, "header", PyTrue)
           /\ extract["format"] = Get(TheOutput, "format", "csv")

\* C10 witness: the end-to-end cell has been compiled under a name, with the
\* load format given in the cell and the extract options left to their defaults.
C10_Witness ==
  /\ outcome # None /\ TheOne(args).name # PyNone /\ FullDocument
  /\ Has(TheInput, "format") /\ ~AnyKeyIn(TheOutput, OutputOptions)
  /\ Succeeded
  /\ Tasks[load_task_config_name]["format"] = "json"
  /\ Tasks[extract_task_config_name]["compress"] = PyTrue

\* C6: the registry is written only by a compile that completes without error.
\* A step that fails leaves every entry as it was; a step that succeeds stores
\* the pipeline of that call under the call's name, replacing any earlier entry
\* of that name, and leaves the other entries as they were.
C6_RegistryStep ==
  LET o == TheOne(outcome')
      name == TheOne(args').name
  IN  IF o.err # NoError
      THEN registry' = registry /\ o.pipeline = None
      ELSE /\ o.pipeline # None
           /\ TheOne(o.pipeline).name = name
           /\ TheOne(o.pipeline).spec.email = TheOne(cell').email
           /\ TheOne(o.pipeline).spec.schedule = TheOne(cell').schedule
           /\ DOMAIN registry' = DOMAIN registry \cup {name}
           /\ registry'[name] = TheOne(o.pipeline)
           /\ \A n \in DOMAIN registry \ {name} : registry'[n] = registry[n]

C6_RegistryWrittenOnSuccessOnly == [][C6_RegistryStep]_vars

\* C6 witness: after a compile that succeeded, a later compile under the same
\* name has failed and the registry still holds an entry of that name.
C6_Witness ==
  /\ ncalls = 2
  /\ outcome # None /\ TheOutcome.err \notin {NoError, ErrNoName}
  /\ Has(registry, TheOne(args).name)

====
